---- MODULE Spec2Model ----
(***************************************************************************)
(* A model of the SIA runtime (shun1423/SIA): the problem state machine    *)
(* (utils/problem_state_machine.py) with the proposal decision handlers of *)
(* app.py, and the execution mini-runtime (layers/execution.py) with its   *)
(* idempotency set, rate limiter, policy gate and lock arbitration.        *)
(***************************************************************************)
EXTENDS Integers, Sequences, FiniteSets, TLC

\* ------------------------------------------------------------------ bounds
MaxHistory  == 3
MaxClock    == 7
TickDays    == 7

MaxRuns     == 2
MaxPatterns == 2
MaxSeconds  == 60
TickSeconds == 30

\* ------------------------------------------------------- program constants
DEFAULT_SNOOZE_DAYS == 7
MAX_REQUESTS        == 100
WINDOW_SECONDS      == 60
DEFAULT_PRIORITY    == 5

NONE == "none"

\* An optional datetime key of a dict: absent, or present with a value.
Absent  == <<>>
Some(t) == <<t>>

VARIABLES
    problems,     \* problem dicts, by problem id
    now,          \* datetime.now(), in days
    proposalLog,  \* logs/proposals.jsonl: per problem id, the decisions logged so far
    lastOp,       \* the last call, when it raised ValueError
    proposalStatus, \* st.session_state.proposal["status"], per problem id
    store,        \* data/world_model.json
    logDown       \* whether a write to the logs directory raises

psmVars == <<problems, now, proposalLog, lastOp, proposalStatus, store, logDown>>

VARIABLES
    th,                 \* per thread: the frame of its execute_agent call
    processed_events,   \* execution_utils._processed_events
    rate_limit_tracker, \* execution_utils._rate_limit_tracker: per resource, request times
    active_locks,       \* AgentConflictManager.active_locks
    agent_priorities,   \* AgentConflictManager.agent_priorities
    clock,              \* datetime.now(), in seconds
    allowedAt,          \* per resource, the times of all requests answered allowed
    applied,            \* how often the effect of (action, resource_id, domain) ran
    executionLog,       \* logs/executions.jsonl: entries appended so far
    runs                \* execute_agent invocations so far

execVars == <<th, processed_events, rate_limit_tracker, active_locks,
              agent_priorities, clock, allowedAt, applied, executionLog, runs>>

VARIABLES
    lockCall            \* the last call made on the conflict manager directly

lockVars == <<lockCall>>

VARIABLES
    permCall            \* the last call of check_permission made directly

policyVars == <<permCall>>

VARIABLES
    auditEntry          \* the last entry handed to AuditLogger._write_log directly

entryVars == <<auditEntry>>

VARIABLES
    sess,               \* per browser session: where its script run stands
    patternsAdded       \* patterns that update_world_model calls have appended

flowVars == <<sess, patternsAdded>>

VARIABLES
    pfResults,          \* the results list last handed to handle_partial_failure
    pfAnalysis,         \* what that call returned
    backoffCall,        \* the last call of exponential_backoff
    bestCall,           \* the last call of select_best_solution
    persistCall         \* the last call of _calculate_persistence

utilVars == <<pfResults, pfAnalysis, backoffCall, bestCall, persistCall>>

\* What an action of the state machine, resp. of execute_agent, leaves alone.
nonPsmVars == <<execVars, lockVars, policyVars, entryVars, utilVars, flowVars>>

nonExecVars == <<psmVars, lockVars, policyVars, entryVars, utilVars, flowVars>>

\* The problems of the session and of the world model's lists.
ProblemIds == {1, 2}

\* ---------------------------------------------------- problem state machine
CANDIDATE == "candidate"
PROPOSED  == "proposed"
CONFIRMED == "confirmed"
REJECTED  == "rejected"
SNOOZED   == "snoozed"
ARCHIVED  == "archived"

ProblemStatus == {CANDIDATE, PROPOSED, CONFIRMED, REJECTED, SNOOZED, ARCHIVED}

ALLOWED_TRANSITIONS ==
    [s \in ProblemStatus |->
        CASE s = CANDIDATE -> {PROPOSED}
          [] s = PROPOSED  -> {CONFIRMED, REJECTED, SNOOZED}
          [] s = CONFIRMED -> {ARCHIVED}
          [] s = REJECTED  -> {}
          [] s = SNOOZED   -> {CANDIDATE, REJECTED}
          [] s = ARCHIVED  -> {}]

\* A mutated graph: a rejected problem may still be confirmed.
can_transition_rejected_open(current_status, target_status) ==
    /\ current_status \in ProblemStatus
    /\ target_status \in ProblemStatus
    /\ \/ target_status \in ALLOWED_TRANSITIONS[current_status]
       \/ (current_status = REJECTED /\ target_status = CONFIRMED)

\* ProblemStatus(x) raises ValueError for a string outside the enum: False.
can_transition(current_status, target_status) ==
    /\ current_status \in ProblemStatus
    /\ target_status \in ProblemStatus
    /\ target_status \in ALLOWED_TRANSITIONS[current_status]

\* The problem dict produced by interpret_gaps: status candidate, no history,
\* none of the state-specific keys.  Of a history entry the model keeps `from`
\* and `to`; user_action, reason and confirmed_by are payload that no code
\* reads back.
NewProblem ==
    [status |-> CANDIDATE, updated_at |-> Absent, transition_history |-> <<>>,
     proposed_at |-> Absent, confirmed_at |-> Absent,
     rejected_at |-> Absent, snoozed_at |-> Absent, snooze_until |-> Absent,
     archived_at |-> Absent]

\* The state-specific part of transition (lines 112-136).
StateSpecific(p, target_status, user_action, t) ==
    CASE target_status = PROPOSED  -> [p EXCEPT !.proposed_at = Some(t)]
      [] target_status = CONFIRMED -> [p EXCEPT !.confirmed_at = Some(t)]
      [] target_status = REJECTED  -> [p EXCEPT !.rejected_at = Some(t)]
      [] target_status = SNOOZED   -> [p EXCEPT !.snoozed_at = Some(t),
                                                !.snooze_until = Some(t + DEFAULT_SNOOZE_DAYS)]
      [] target_status = ARCHIVED  -> [p EXCEPT !.archived_at = Some(t)]
      [] OTHER -> p

\* A mutated transition: the status and updated_at are written before the
\* check, so a refused transition still leaves its mark.
transition_write_first(p, target_status, user_action, t) ==
    IF ~can_transition(p.status, target_status)
    THEN [raised |-> TRUE,
          problem |-> [p EXCEPT !.status = target_status, !.updated_at = Some(t)]]
    ELSE [raised |-> FALSE,
          problem |-> StateSpecific(
              [p EXCEPT !.status = target_status,
                        !.updated_at = Some(t),
                        !.transition_history =
                            Append(@, [from |-> p.status, to |-> target_status])],
              target_status, user_action, t)]

\* A mutated transition: the history entry records the target as its origin.
transition_from_is_target(p, target_status, user_action, t) ==
    IF ~can_transition(p.status, target_status)
    THEN [raised |-> TRUE, problem |-> p]
    ELSE [raised |-> FALSE,
          problem |-> StateSpecific(
              [p EXCEPT !.status = target_status,
                        !.updated_at = Some(t),
                        !.transition_history =
                            Append(@, [from |-> target_status, to |-> target_status])],
              target_status, user_action, t)]

\* ProblemStateMachine.transition at time t: either raises ValueError and
\* leaves the dict alone, or returns the updated dict.
transition(p, target_status, user_action, t) ==
    IF ~can_transition(p.status, target_status)
    THEN [raised |-> TRUE, problem |-> p]
    ELSE [raised |-> FALSE,
          problem |-> StateSpecific(
              [p EXCEPT !.status = target_status,
                        !.updated_at = Some(t),
                        !.transition_history =
                            Append(@, [from |-> p.status, to |-> target_status])],
              target_status, user_action, t)]

promote_candidate_to_proposed(p, t) == transition(p, PROPOSED, "system_propose", t)

confirm_problem(p, t) == transition(p, CONFIRMED, "user_approve", t)

reject_problem(p, t) == transition(p, REJECTED, "user_reject", t)

\* snooze_problem: transition, then snooze_until is overwritten with the
\* requested period (not reached when transition raises).
snooze_problem(p, days, t) ==
    LET r == transition(p, SNOOZED, "user_snooze", t)
    IN  IF r.raised THEN r
        ELSE [raised |-> FALSE,
              problem |-> [r.problem EXCEPT !.snooze_until = Some(t + days)]]

archive_problem(p, t) == transition(p, ARCHIVED, "user_archive", t)

\* One iteration of the loop of check_snoozed_problems over a problem of the
\* world model's lists.
SweepOne_strictly_later(p, t) ==
    IF p.status = SNOOZED /\ p.snooze_until # Absent /\ t > p.snooze_until[1]
    THEN transition(p, CANDIDATE, "system_reevaluate", t).problem
    ELSE p

SweepOne(p, t) ==
    IF p.status = SNOOZED /\ p.snooze_until # Absent /\ t >= p.snooze_until[1]
    THEN transition(p, CANDIDATE, "system_reevaluate", t).problem
    ELSE p

\* check_snoozed_problems over the problems listed in the world model; the
\* returned list is the problems it moved back.
check_snoozed_problems(listed, t) ==
    [updated |-> [q \in ProblemIds |->
                    IF q \in listed THEN SweepOne(problems[q], t) ELSE problems[q]],
     ready   |-> {q \in listed : SweepOne(problems[q], t) # problems[q]}]

SnoozeDays == {0, DEFAULT_SNOOZE_DAYS}

\* lastOp when the last call returned normally.
NoRaise == [op |-> NONE, p |-> 0, raised |-> FALSE]

HistoryRoom(p) == Len(problems[p].transition_history) < MaxHistory

\* ------------------------------------------------------------ PSM actions
\* A direct call of one of the state machine's operations on problem p.
Call(p, op, r) ==
    /\ r.raised \/ HistoryRoom(p)
    /\ problems' = [problems EXCEPT ![p] = r.problem]
    /\ lastOp' = IF r.raised THEN [op |-> op, p |-> p, raised |-> TRUE] ELSE NoRaise
    /\ UNCHANGED <<now, proposalLog, proposalStatus, store, logDown, nonPsmVars>>

CallTransition(p) ==
    \E target \in ProblemStatus :
        Call(p, "transition", transition(problems[p], target, NONE, now))

CallPromote(p) == Call(p, "promote", promote_candidate_to_proposed(problems[p], now))

CallConfirm(p) == Call(p, "confirm", confirm_problem(problems[p], now))

CallReject(p) == Call(p, "reject", reject_problem(problems[p], now))

CallSnooze(p) ==
    \E days \in SnoozeDays :
        Call(p, "snooze", snooze_problem(problems[p], days, now))

CallArchive(p) == Call(p, "archive", archive_problem(problems[p], now))

CheckSnoozed ==
    \E listed \in SUBSET ProblemIds :
        LET r == check_snoozed_problems(listed, now) IN
        /\ \A q \in r.ready : HistoryRoom(q)
        /\ problems' = r.updated
        /\ lastOp' = NoRaise
        /\ UNCHANGED <<now, proposalLog, proposalStatus, store, logDown, nonPsmVars>>

\* The stored world model: the ids of confirmed_problems and active_agents,
\* and the number of patterns.
EmptyStore == [confirmed_problems |-> {}, active_agents |-> {}, patterns |-> 0]

\* proposal["status"] after a decision went through.
DecidedStatus(decision) ==
    CASE decision = "approve" -> "approved"
      [] decision = "reject"  -> "rejected"
      [] decision = "snooze"  -> "snoozed"

\* The approve / reject / snooze buttons of the Proposal page, shown while
\* the proposal is not approved.  One try block holds the state machine
\* call (which changes the problem dict in place), for approve the load /
\* append / write of the world model, then log_proposal_decision, then the
\* update of the session's proposal: an exception leaves the try block at
\* the statement that raised.
Decide(p, decision, r) ==
    /\ proposalStatus[p] # "approved"
    /\ r.raised \/ HistoryRoom(p)
    /\ problems' = [problems EXCEPT ![p] = r.problem]
    /\ store' = IF ~r.raised /\ decision = "approve"
                THEN [store EXCEPT !.confirmed_problems = @ \cup {p}]
                ELSE store
    /\ proposalLog' = IF r.raised \/ logDown THEN proposalLog
                      ELSE [proposalLog EXCEPT ![p] = Append(@, decision)]
    /\ proposalStatus' = IF r.raised \/ logDown THEN proposalStatus
                         ELSE [proposalStatus EXCEPT ![p] = DecidedStatus(decision)]
    /\ lastOp' = IF r.raised THEN [op |-> decision, p |-> p, raised |-> TRUE] ELSE NoRaise
    /\ UNCHANGED <<now, logDown, nonPsmVars>>

ApproveHandler(p) == Decide(p, "approve", confirm_problem(problems[p], now))

RejectHandler(p) == Decide(p, "reject", reject_problem(problems[p], now))

SnoozeHandler(p) == Decide(p, "snooze", snooze_problem(problems[p], DEFAULT_SNOOZE_DAYS, now))

Tick ==
    /\ now + TickDays <= MaxClock
    /\ now' = now + TickDays
    /\ UNCHANGED <<problems, proposalLog, lastOp, proposalStatus, store, logDown,
                   nonPsmVars>>

PsmInit ==
    /\ problems = [p \in ProblemIds |-> NewProblem]
    /\ now = 0
    /\ proposalLog = [p \in ProblemIds |-> <<>>]
    /\ lastOp = NoRaise
    /\ proposalStatus = [p \in ProblemIds |-> "pending"]
    /\ store = EmptyStore
    /\ logDown = FALSE

PsmNext ==
    \/ \E p \in ProblemIds : CallTransition(p)
    \/ \E p \in ProblemIds : CallPromote(p)
    \/ \E p \in ProblemIds : CallConfirm(p)
    \/ \E p \in ProblemIds : CallReject(p)
    \/ \E p \in ProblemIds : CallSnooze(p)
    \/ \E p \in ProblemIds : CallArchive(p)
    \/ \E p \in ProblemIds : ApproveHandler(p)
    \/ \E p \in ProblemIds : RejectHandler(p)
    \/ \E p \in ProblemIds : SnoozeHandler(p)
    \/ CheckSnoozed
    \/ Tick

\* ------------------------------------------------------ execution: inputs
\* The `do` strings of the actions.  A Python `kw in action_do` test is a
\* lookup in DoSubstrings: for each string, the tested keywords (those of
\* _classify_action, of the effect branches of execute_agent and the prefix
\* of check_conflict) that occur in it.
DO_LABEL_IMPORTANT == "gmail.apply_label(Important)"
DO_LABEL_URGENT    == "gmail.apply_label(Urgent)"
DO_LABEL_LATER     == "gmail.apply_label(Later)"
DO_SEND_DM         == "slack.send_dm(summary)"
DO_REVIEW_PR       == "github.review_pr"
DO_TRACK_GOAL      == "health.track_goal"
DO_CATEGORIZE      == "finance.categorize"
DO_READ_EMAILS     == "read_emails"

Dos == {DO_LABEL_IMPORTANT, DO_LABEL_URGENT, DO_LABEL_LATER, DO_SEND_DM,
        DO_REVIEW_PR, DO_TRACK_GOAL, DO_CATEGORIZE, DO_READ_EMAILS}

DO_SEND_DM_REVIEW  == "slack.send_dm(f'PR review needed: {pr.title}')"
DO_SEND_DM_RELEASE == "slack.send_dm(f'release PR review needed: {pr.title}')"
DO_SORT_PRS        == "sort_prs_by_priority()"
DO_PROCESS_PRS     == "process_prs()"

DO_DELETE           == "delete"
DO_SEND_ALERT       == "send_alert"
DO_NOTIFY_REVIEW    == "notify_review_needed"

DoSubstrings(do) ==
    CASE do \in {DO_LABEL_IMPORTANT, DO_LABEL_URGENT, DO_LABEL_LATER}
                             -> {"apply", "apply_label", "gmail.apply_label"}
      [] do = DO_DELETE          -> {"delete"}
      [] do = DO_SEND_ALERT      -> {"send", "alert"}
      [] do = DO_NOTIFY_REVIEW   -> {"notify"}
      [] do = DO_SEND_DM     -> {"send"}
      [] do \in {DO_SEND_DM_REVIEW, DO_SEND_DM_RELEASE} -> {"send"}
      [] do \in {DO_SORT_PRS, DO_PROCESS_PRS} -> {}
      [] do = DO_REVIEW_PR   -> {"review_pr"}
      [] do = DO_TRACK_GOAL  -> {"track_goal"}
      [] do = DO_CATEGORIZE  -> {"categorize"}
      [] do = DO_READ_EMAILS -> {"read"}

\* The verb a tool's permissions.write names for the action.
DoVerb(do) ==
    CASE do \in {DO_LABEL_IMPORTANT, DO_LABEL_URGENT, DO_LABEL_LATER} -> "apply_label"
      [] do \in {DO_SEND_DM, DO_SEND_DM_REVIEW, DO_SEND_DM_RELEASE} -> "send_dm"
      [] do \in {DO_SORT_PRS, DO_PROCESS_PRS} -> NONE
      [] do = DO_REVIEW_PR   -> "review_pr"
      [] do = DO_TRACK_GOAL  -> "track_goal"
      [] do = DO_CATEGORIZE  -> "categorize"
      [] do = DO_READ_EMAILS -> "read_emails"

Act(do, type, requires_approval, tool) ==
    [do |-> do, type |-> type, requires_approval |-> requires_approval,
     tool |-> tool, resource |-> "default"]

\* The approval policy _generate_safety_policy gives an agent of a risk level
\* (an unknown level gets the medium one).
approval_policy ==
    [low    |-> [write_operations |-> "auto_approve",
                 high_risk_actions |-> "require_approval"],
     medium |-> [write_operations |-> "require_approval",
                 high_risk_actions |-> "require_approval"],
     high   |-> [write_operations |-> "require_approval",
                 high_risk_actions |-> "block"]]

_generate_safety_policy(risk_level) ==
    LET ap == IF risk_level \in DOMAIN approval_policy
              THEN approval_policy[risk_level] ELSE approval_policy["medium"]
    IN  [risk_level |-> risk_level,
         write_policy |-> ap.write_operations,
         requires_approval |-> (risk_level # "low")]

\* ------------------------------------------ exploration.py, composition.py
\* The solution templates of explore_solutions.  Names are given in English;
\* NameKeywords lists, for each name, the keywords compose_agent tests it
\* for that occur in it.  pros and cons are the lengths of the lists.
Solution(id, name, pros, cons, complexity, required_tools) ==
    [id |-> id, name |-> name, pros |-> pros, cons |-> cons,
     complexity |-> complexity, required_tools |-> required_tools,
     risk_level |-> "low"]

EmailVisibilitySolutions ==
    <<Solution("sol_1", "auto classification system", 3, 2, "medium",
               {"email_reader", "classifier", "label_applier"}),
      Solution("sol_2", "important mail realtime alert", 2, 2, "low",
               {"email_reader", "notification"}),
      Solution("sol_3", "morning summary report", 2, 2, "medium",
               {"email_reader", "summarizer", "report_generator"})>>

PrReviewDelaySolutions ==
    <<Solution("sol_github_1", "PR review alert system", 2, 1, "low",
               {"pr_reader", "notifier"}),
      Solution("sol_github_2", "PR priority auto classification", 2, 1, "medium",
               {"pr_reader", "reviewer", "priority_scorer"})>>

NameKeywords(name) ==
    CASE name = "auto classification system"      -> {"classification"}
      [] name = "important mail realtime alert"   -> {}
      [] name = "morning summary report"          -> {"summary", "report"}
      [] name = "PR review alert system"          -> {"review"}
      [] name = "PR priority auto classification" -> {"priority", "classification"}
      [] OTHER -> {}

\* _generate_trigger for the github domain.
_generate_trigger(solution, domain) ==
    IF domain = "github"
    THEN IF "review" \in NameKeywords(solution.name)
         THEN [type |-> "event", source |-> "github", event |-> "new_pr"]
         ELSE [type |-> "schedule", source |-> NONE, event |-> NONE]
    ELSE [type |-> "event", source |-> domain, event |-> "data_update"]

\* _generate_actions for the github domain; the generated actions name no
\* tool and no rate-limit resource.
_generate_actions(solution, domain) ==
    IF domain = "github" /\ "review" \in NameKeywords(solution.name)
    THEN <<Act(DO_SEND_DM_REVIEW, "notification", FALSE, ""),
           Act(DO_SEND_DM_RELEASE, "notification", FALSE, "")>>
    ELSE IF domain = "github" /\ "priority" \in NameKeywords(solution.name)
    THEN <<Act(DO_SORT_PRS, "read", FALSE, "")>>
    ELSE <<Act(DO_PROCESS_PRS, "read", FALSE, "")>>

\* _generate_tools for the github domain: the name and permissions.write
\* of the tool each required tool maps to (no source is connected).
GithubTools ==
    [pr_reader       |-> [name |-> "github", write |-> {}],
     reviewer        |-> [name |-> "pr_reviewer", write |-> {}],
     notifier        |-> [name |-> "slack", write |-> {"send_dm"}],
     priority_scorer |-> [name |-> "pr_priority_scorer", write |-> {}]]

_generate_tools(required_tools) ==
    [n \in {GithubTools[r].name : r \in required_tools} |->
        UNION {GithubTools[r].write : r \in {q \in required_tools : GithubTools[q].name = n}}]

\* generate_workflow for the github domain: the legacy workflow list.
Step(step, action, tool) == [step |-> step, action |-> action, tool |-> tool]

generate_workflow(solution, domain) ==
    IF domain = "github" /\ "review" \in NameKeywords(solution.name)
    THEN <<Step(1, "read_prs", "pr_reader"),
           Step(2, "check_review_status", "reviewer"),
           Step(3, "notify_review_needed", "notifier")>>
    ELSE IF domain = "github" /\ "priority" \in NameKeywords(solution.name)
    THEN <<Step(1, "read_prs", "pr_reader"),
           Step(2, "score_priority", "priority_scorer"),
           Step(3, "sort_prs", "sorter")>>
    ELSE <<Step(1, "read_prs", "pr_reader"), Step(2, "process", "github")>>

\* compose_agent for a problem of the given domain (the id is the solution's
\* id with the date).
compose_agent(solution, domain) ==
    [id |-> "agent_" \o solution.id,
     domain |-> domain,
     risk_level |-> solution.risk_level,
     trigger |-> _generate_trigger(solution, domain),
     write_policy |-> _generate_safety_policy(solution.risk_level).write_policy,
     actions |-> _generate_actions(solution, domain),
     tools |-> _generate_tools(solution.required_tools),
     workflow |-> generate_workflow(solution, domain)]

\* Agent configs handed to execute_agent.  `tools` maps each tool name of the
\* config to its permissions.write list; write_policy is
\* safety.approval_policy.write_operations.
AgentConfigs ==
    [labeler_low |->
        [id |-> "agent_low", domain |-> "email", risk_level |-> "low",
         write_policy |-> "auto_approve",
         actions |-> <<Act(DO_LABEL_IMPORTANT, "write", FALSE, "gmail")>>,
         tools |-> [gmail |-> {"apply_label"}]],
     labeler_medium |->
        [id |-> "agent_medium", domain |-> "email", risk_level |-> "medium",
         write_policy |-> "require_approval",
         actions |-> <<Act(DO_SEND_DM, "notification", FALSE, "notification"),
                       Act(DO_LABEL_LATER, "write", TRUE, "gmail")>>,
         tools |-> [gmail |-> {"apply_label"}, notification |-> {"send_dm"}]],
     labeler_high |->
        [id |-> "agent_high", domain |-> "email", risk_level |-> "high",
         write_policy |-> "require_approval",
         actions |-> <<Act(DO_LABEL_URGENT, "write", FALSE, "gmail")>>,
         tools |-> [gmail |-> {"send_dm"}]],
     reviewer |->
        [id |-> "agent_review", domain |-> "github", risk_level |-> "medium",
         write_policy |-> "require_approval",
         actions |-> <<Act(DO_REVIEW_PR, "write", FALSE, "github")>>,
         tools |-> [github |-> {"review_pr"}]],
     tracker |->
        [id |-> "agent_health", domain |-> "health", risk_level |-> "low",
         write_policy |-> "auto_approve",
         actions |-> <<Act(DO_TRACK_GOAL, "read", FALSE, "health")>>,
         tools |-> [health |-> {}]],
     categorizer |->
        [id |-> "agent_finance", domain |-> "finance", risk_level |-> "low",
         write_policy |-> "auto_approve",
         actions |-> <<Act(DO_CATEGORIZE, "read", FALSE, "finance_app"),
                       Act(DO_READ_EMAILS, "read", FALSE, "finance_app")>>,
         tools |-> [finance_app |-> {}]],
     unpermitted |->
        [id |-> "agent_unpermitted", domain |-> "email", risk_level |-> "low",
         write_policy |-> "auto_approve",
         actions |-> <<Act(DO_LABEL_IMPORTANT, "write", FALSE, "gmail")>>,
         tools |-> [gmail |-> {}]],
     pr_review_alert |-> compose_agent(PrReviewDelaySolutions[1], "github")]

ConfigNames == DOMAIN AgentConfigs

AgentIds == {AgentConfigs[c].id : c \in ConfigNames}

RiskOfAgent(agent_id) ==
    AgentConfigs[CHOOSE c \in ConfigNames : AgentConfigs[c].id = agent_id].risk_level

\* world_model["safety"]["policy"] as handed to execute_agent.
WorldModels ==
    [write_blocked |->
        [default_write_block |-> TRUE, action_allowlist |-> {},
         forbidden_actions |-> {}],
     writes_open |->
        [default_write_block |-> FALSE, action_allowlist |-> {},
         forbidden_actions |-> {}],
     allowlisted |->
        [default_write_block |-> TRUE, action_allowlist |-> {DO_LABEL_IMPORTANT},
         forbidden_actions |-> {}],
     forbidding |->
        [default_write_block |-> FALSE,
         action_allowlist |-> {DO_SEND_DM, DO_LABEL_LATER},
         forbidden_actions |-> {DO_SEND_DM, DO_REVIEW_PR}]]

WorldModelNames == DOMAIN WorldModels

\* The id of the first email / PR of the input snapshot.
Resources == {"r1", "r2"}

RateBuckets == {"default"}

TimePoints == {k * TickSeconds : k \in 0..(MaxSeconds \div TickSeconds)}

\* ------------------------------------------------------------ policy.py
_classify_action(action) ==
    LET kw == DoSubstrings(action) IN
    IF kw \cap {"read", "get", "fetch", "load"} # {} THEN "read"
    ELSE IF kw \cap {"write", "create", "update", "apply", "send"} # {} THEN "write"
    ELSE IF kw \cap {"delete", "remove", "drop"} # {} THEN "delete"
    ELSE IF kw \cap {"notify", "notification", "alert"} # {} THEN "notification"
    ELSE "execute"

Permission(allowed, requires_approval) ==
    [allowed |-> allowed, requires_approval |-> requires_approval]

check_permission(action, policy, agent_config) ==
    LET action_type == _classify_action(action) IN
    IF action_type \in {"write", "delete"} /\ policy.default_write_block
    THEN Permission(FALSE, TRUE)
    ELSE IF action \in policy.action_allowlist THEN Permission(TRUE, FALSE)
    ELSE IF action \in policy.forbidden_actions THEN Permission(FALSE, FALSE)
    ELSE IF action_type = "write" /\ agent_config.write_policy = "block"
    THEN Permission(FALSE, FALSE)
    ELSE IF action_type = "write" /\ agent_config.write_policy = "require_approval"
    THEN Permission(TRUE, TRUE)
    ELSE IF action_type = "read" THEN Permission(TRUE, FALSE)
    ELSE Permission(TRUE, TRUE)

\* validate_agent_config(...)["valid"]: the configs carry every required
\* field, so the only error is a write action whose tool is listed with an
\* empty permissions.write (a tool that is not listed is a warning).
validate_agent_config(agent_config) ==
    \A i \in 1..Len(agent_config.actions) :
        LET a == agent_config.actions[i] IN
        ~(/\ a.type = "write"
          /\ a.tool \in DOMAIN agent_config.tools
          /\ agent_config.tools[a.tool] = {})

\* ------------------------------------------------------ execution_utils.py
\* A sum of a function's values over a finite set of its arguments.
RECURSIVE SumOver(_, _)
SumOver(f, S) ==
    IF S = {} THEN 0
    ELSE LET x == CHOOSE y \in S : TRUE IN f[x] + SumOver(f, S \ {x})

Min(S) == CHOOSE x \in S : \A y \in S : x <= y

\* The request times of a bucket are kept as a count per time.
InWindow(t, at) == t > at - WINDOW_SECONDS

\* A mutated limit test: one request too many passes.
RateLimitReached_off_by_one(current_count, max_requests) ==
    current_count > max_requests

RateLimitReached(current_count, max_requests) ==
    current_count >= max_requests

\* check_rate_limit(resource, max_requests, window_seconds) at time `at`:
\* the answer and the new list of the resource.
check_rate_limit(tracker, resource, max_requests, at) ==
    LET kept == [t \in TimePoints |->
                    IF InWindow(t, at) THEN tracker[resource][t] ELSE 0]
        current_count == SumOver(kept, TimePoints)
        oldest_request == Min({t \in TimePoints : kept[t] > 0})
        retry_after == oldest_request + WINDOW_SECONDS - at
    IN  IF RateLimitReached(current_count, max_requests)
        THEN [allowed |-> FALSE,
              retry_after |-> Some(IF retry_after > 0 THEN retry_after ELSE 0),
              tracker |-> [tracker EXCEPT ![resource] = kept]]
        ELSE [allowed |-> TRUE,
              retry_after |-> Absent,
              tracker |-> [tracker EXCEPT
                              ![resource] = [kept EXCEPT ![at] = @ + 1]]]

\* generate_event_id: the SHA-256 of the JSON of (action, resource_id,
\* context) is modelled by the triple itself (no collisions).
generate_event_id(action, resource_id, domain) == <<action, resource_id, domain>>

\* ----------------------------------------------- agent_conflict_manager.py
NoLock == [agent_id |-> NONE, do |-> NONE]

IsLocked(locks, resource_id) == locks[resource_id] # NoLock

\* agent_priorities.get(agent_id, 5)
PriorityGet(prios, agent_id) ==
    IF prios[agent_id] = Absent THEN DEFAULT_PRIORITY ELSE prios[agent_id][1]

_resolve_priority(prios, agent1_id, agent2_id) ==
    LET priority1 == PriorityGet(prios, agent1_id)
        priority2 == PriorityGet(prios, agent2_id)
    IN  IF priority1 > priority2 THEN "agent1_wins"
        ELSE IF priority2 > priority1 THEN "agent2_wins"
        ELSE "agent1_wins"

NoConflict ==
    [has_conflict |-> FALSE, conflict_type |-> NONE,
     conflicting_agent |-> NONE, resolution |-> NONE]

check_conflict(locks, prios, agent_id, action, resource_id) ==
    IF /\ action.type \in {"write", "delete"}
       /\ IsLocked(locks, resource_id)
       /\ locks[resource_id].agent_id # agent_id
    THEN [has_conflict |-> TRUE, conflict_type |-> "resource_lock",
          conflicting_agent |-> locks[resource_id].agent_id,
          resolution |-> _resolve_priority(prios, agent_id, locks[resource_id].agent_id)]
    ELSE IF /\ "gmail.apply_label" \in DoSubstrings(action.do)
            /\ IsLocked(locks, resource_id)
            /\ "gmail.apply_label" \in DoSubstrings(locks[resource_id].do)
            /\ locks[resource_id].do # action.do
    THEN [has_conflict |-> TRUE, conflict_type |-> "label_conflict",
          conflicting_agent |-> locks[resource_id].agent_id,
          resolution |-> "priority_based"]
    ELSE NoConflict

\* release_lock: the lock goes, and with it the holder's priority entry.
release_lock(locks, prios, resource_id) ==
    IF IsLocked(locks, resource_id)
    THEN [locks |-> [locks EXCEPT ![resource_id] = NoLock],
          prios |-> [prios EXCEPT ![locks[resource_id].agent_id] = Absent]]
    ELSE [locks |-> locks, prios |-> prios]

\* A mutated acquire_lock: a requester of equal priority preempts too.
acquire_lock_ties_preempt(locks, prios, agent_id, resource_id, action, priority) ==
    IF /\ IsLocked(locks, resource_id)
       /\ ~(priority >= PriorityGet(prios, locks[resource_id].agent_id))
    THEN [ok |-> FALSE, locks |-> locks, prios |-> prios]
    ELSE LET rel == release_lock(locks, prios, resource_id) IN
         [ok |-> TRUE,
          locks |-> [rel.locks EXCEPT
                        ![resource_id] = [agent_id |-> agent_id, do |-> action.do]],
          prios |-> [rel.prios EXCEPT ![agent_id] = Some(priority)]]

acquire_lock(locks, prios, agent_id, resource_id, action, priority) ==
    IF /\ IsLocked(locks, resource_id)
       /\ ~(priority > PriorityGet(prios, locks[resource_id].agent_id))
    THEN [ok |-> FALSE, locks |-> locks, prios |-> prios]
    ELSE LET rel == release_lock(locks, prios, resource_id) IN
         [ok |-> TRUE,
          locks |-> [rel.locks EXCEPT
                        ![resource_id] = [agent_id |-> agent_id, do |-> action.do]],
          prios |-> [rel.prios EXCEPT ![agent_id] = Some(priority)]]

\* priority_map.get(agent_config["risk_level"], 5) of execute_agent.
priority_map == [low |-> 5, medium |-> 7, high |-> 9]

priority_score(risk_level) ==
    IF risk_level \in DOMAIN priority_map THEN priority_map[risk_level]
    ELSE DEFAULT_PRIORITY

\* ------------------------------------------------- execution.py: frames
Threads == {"t1", "t2"}

\* The frame of a thread that is not inside execute_agent.
Idle ==
    [pc |-> "idle", cfg |-> NONE, wm |-> NONE, resource_id |-> NONE, idx |-> 0,
     results |-> <<>>, conflict_check |-> NoConflict]

Config(t) == AgentConfigs[th[t].cfg]

Policy(t) == WorldModels[th[t].wm]

CurrentAction(t) == Config(t).actions[th[t].idx]

\* resource_id of the run: the id of the first email / PR; None for the
\* other domains and for an empty snapshot.
ResourceIdsOf(domain) ==
    IF domain \in {"email", "github"} THEN Resources \cup {NONE} ELSE {NONE}

Result(action, status, why, retry_after) ==
    [action |-> action, status |-> status, why |-> why, retry_after |-> retry_after]

\* The frame after the loop body ended for the current action with or
\* without a new entry of `results`: on to the next action, or out of the loop.
Advance(f, results) ==
    [f EXCEPT !.results = results,
              !.idx = @ + 1,
              !.pc = IF f.idx < Len(AgentConfigs[f.cfg].actions) THEN "gate"
                     ELSE "finish"]

Record(f, status, why, retry_after) ==
    Advance(f, Append(f.results,
                      Result(AgentConfigs[f.cfg].actions[f.idx].do, status, why,
                             retry_after)))

Bump(bag, k) ==
    IF k \in DOMAIN bag THEN [bag EXCEPT ![k] = @ + 1] ELSE bag @@ (k :> 1)

\* The branch of the effect simulation the action falls into.
EffectBranch(domain, action_do) ==
    IF domain = "email" /\ "apply_label" \in DoSubstrings(action_do) THEN "apply_label"
    ELSE IF domain = "github" /\ "review_pr" \in DoSubstrings(action_do) THEN "review_pr"
    ELSE IF domain = "health" /\ "track_goal" \in DoSubstrings(action_do) THEN "track_goal"
    ELSE IF domain = "finance" /\ "categorize" \in DoSubstrings(action_do) THEN "categorize"
    ELSE "unimplemented"

\* ------------------------------------------------ execution.py: the steps
\* execute_agent is entered: validation, then the first action.  An invalid
\* config returns "failed" before anything else happens.
Start(t, configs, policies) ==
    /\ th[t].pc = "idle"
    /\ runs < MaxRuns
    /\ \E c \in configs, w \in policies :
        \E rid \in ResourceIdsOf(AgentConfigs[c].domain) :
            /\ runs' = runs + 1
            /\ th' = IF validate_agent_config(AgentConfigs[c])
                     THEN [th EXCEPT ![t] =
                              [Idle EXCEPT !.pc = "gate", !.cfg = c, !.wm = w,
                                           !.resource_id = rid, !.idx = 1]]
                     ELSE th
    /\ UNCHANGED <<processed_events, rate_limit_tracker, active_locks,
                   agent_priorities, clock, allowedAt, applied, executionLog,
                   nonExecVars>>

\* Lines 121-156: the rate-limit check, the policy check and the approval check.
Gate(t) ==
    /\ th[t].pc = "gate"
    /\ LET a    == CurrentAction(t)
           rl   == check_rate_limit(rate_limit_tracker, a.resource, MAX_REQUESTS, clock)
           perm == check_permission(a.do, Policy(t), Config(t))
       IN  /\ rate_limit_tracker' = rl.tracker
           /\ allowedAt' = IF rl.allowed
                           THEN [allowedAt EXCEPT ![a.resource][clock] = @ + 1]
                           ELSE allowedAt
           /\ th' = [th EXCEPT ![t] =
                IF ~rl.allowed THEN Record(@, "rate_limited", NONE, rl.retry_after)
                ELSE IF ~perm.allowed THEN Record(@, "blocked", NONE, Absent)
                ELSE IF a.requires_approval /\ perm.requires_approval
                THEN Record(@, "pending_approval", NONE, Absent)
                ELSE IF th[t].resource_id # NONE THEN [@ EXCEPT !.pc = "idem_test"]
                ELSE [@ EXCEPT !.pc = "effect"]]
    /\ UNCHANGED <<processed_events, active_locks, agent_priorities, clock,
                   applied, executionLog, runs, nonExecVars>>

\* check_idempotency, first half: `event_id in _processed_events`.
IdemTest(t) ==
    /\ th[t].pc = "idem_test"
    /\ LET event_id == generate_event_id(CurrentAction(t).do, th[t].resource_id,
                                         Config(t).domain)
       IN  th' = [th EXCEPT ![t] =
                IF event_id \in processed_events
                THEN Record(@, "skipped", "idempotent", Absent)
                ELSE [@ EXCEPT !.pc = "idem_add"]]
    /\ UNCHANGED <<processed_events, rate_limit_tracker, active_locks,
                   agent_priorities, clock, allowedAt, applied, executionLog,
                   runs, nonExecVars>>

\* check_idempotency, second half: `_processed_events.add(event_id)`.
IdemAdd(t) ==
    /\ th[t].pc = "idem_add"
    /\ processed_events' = processed_events \cup
            {generate_event_id(CurrentAction(t).do, th[t].resource_id, Config(t).domain)}
    /\ th' = [th EXCEPT ![t].pc = "conflict"]
    /\ UNCHANGED <<rate_limit_tracker, active_locks, agent_priorities, clock,
                   allowedAt, applied, executionLog, runs, nonExecVars>>

\* Lines 177-207: check_conflict and what execute_agent makes of its answer.
CheckConflict(t) ==
    /\ th[t].pc = "conflict"
    /\ LET cc == check_conflict(active_locks, agent_priorities, Config(t).id,
                                CurrentAction(t), th[t].resource_id)
       IN  th' = [th EXCEPT ![t] =
                IF cc.has_conflict /\ cc.resolution # "agent1_wins"
                THEN Record([@ EXCEPT !.conflict_check = cc], "conflict", NONE, Absent)
                ELSE [@ EXCEPT !.pc = "acquire", !.conflict_check = cc]]
    /\ UNCHANGED <<processed_events, rate_limit_tracker, active_locks,
                   agent_priorities, clock, allowedAt, applied, executionLog,
                   runs, nonExecVars>>

\* Lines 185-199 and 209-213: acquire_lock with the priority of the agent's
\* risk level.  After a conflict a refusal is recorded as `conflict`; without
\* one the answer of acquire_lock is not looked at.
Acquire(t) ==
    /\ th[t].pc = "acquire"
    /\ LET r == acquire_lock(active_locks, agent_priorities, Config(t).id,
                             th[t].resource_id, CurrentAction(t),
                             priority_score(Config(t).risk_level))
       IN  /\ active_locks' = r.locks
           /\ agent_priorities' = r.prios
           /\ th' = [th EXCEPT ![t] =
                IF th[t].conflict_check.has_conflict /\ ~r.ok
                THEN Record(@, "conflict", NONE, Absent)
                ELSE [@ EXCEPT !.pc = "effect"]]
    /\ UNCHANGED <<processed_events, rate_limit_tracker, clock, allowedAt,
                   applied, executionLog, runs, nonExecVars>>

\* Lines 215-265: the effect simulation of the domain.  Only the email
\* label branch goes on to release the lock.
Effect(t) ==
    /\ th[t].pc = "effect"
    /\ LET a      == CurrentAction(t)
           branch == EffectBranch(Config(t).domain, a.do)
           done   == Append(th[t].results, Result(a.do, "success", NONE, Absent))
       IN  /\ applied' = IF branch = "unimplemented" THEN applied
                         ELSE Bump(applied, <<a.do, th[t].resource_id, Config(t).domain>>)
           /\ th' = [th EXCEPT ![t] =
                IF branch = "unimplemented"
                THEN Record(@, "skipped", "unimplemented", Absent)
                ELSE IF branch = "apply_label" /\ th[t].resource_id # NONE
                THEN [@ EXCEPT !.pc = "release", !.results = done]
                ELSE Advance(@, done)]
    /\ UNCHANGED <<processed_events, rate_limit_tracker, active_locks,
                   agent_priorities, clock, allowedAt, executionLog, runs, nonExecVars>>

\* Lines 227-229: release_lock(resource_id) after the label effect.
Release(t) ==
    /\ th[t].pc = "release"
    /\ LET r == release_lock(active_locks, agent_priorities, th[t].resource_id)
       IN  /\ active_locks' = r.locks
           /\ agent_priorities' = r.prios
    /\ th' = [th EXCEPT ![t] = Advance(@, @.results)]
    /\ UNCHANGED <<processed_events, rate_limit_tracker, clock, allowedAt,
                   applied, executionLog, runs, nonExecVars>>

\* agent_config.get("workflow", [])
WorkflowOf(agent_config) ==
    IF "workflow" \in DOMAIN agent_config THEN agent_config.workflow ELSE <<>>

CountStatus(results, status) ==
    Cardinality({i \in DOMAIN results : results[i].status = status})

\* Lines 574-589: the summary of the execution result of a run whose frame
\* is f.  (Every config of AgentConfigs has actions, so the workflow loop of
\* lines 267-544, entered only without actions, is not run.)
Summary(f) ==
    LET agent_config == AgentConfigs[f.cfg] IN
    [total_steps      |-> IF WorkflowOf(agent_config) # <<>>
                          THEN Len(WorkflowOf(agent_config))
                          ELSE Len(agent_config.actions),
     completed_steps  |-> CountStatus(f.results, "success"),
     blocked_steps    |-> CountStatus(f.results, "blocked"),
     pending_approval |-> CountStatus(f.results, "pending_approval"),
     rate_limited     |-> CountStatus(f.results, "rate_limited")]

\* Lines 546-603: the result is built, logged and returned.
Finish(t) ==
    /\ th[t].pc = "finish"
    /\ executionLog' = IF logDown THEN executionLog ELSE executionLog + 1
    /\ th' = [th EXCEPT ![t] = Idle]
    /\ UNCHANGED <<processed_events, rate_limit_tracker, active_locks,
                   agent_priorities, clock, allowedAt, applied, runs, nonExecVars>>

ClockTick ==
    /\ clock + TickSeconds <= MaxSeconds
    /\ clock' = clock + TickSeconds
    /\ UNCHANGED <<th, processed_events, rate_limit_tracker, active_locks,
                   agent_priorities, allowedAt, applied, executionLog, runs, nonExecVars>>

\* ------------------------------------------------------- specifications
\* Requests that earlier invocations left in the rate-limit table.
ExecInitWith(earlier) ==
    /\ th = [t \in Threads |-> Idle]
    /\ processed_events = {}
    /\ rate_limit_tracker =
            [b \in RateBuckets |-> [t \in TimePoints |-> IF t = 0 THEN earlier ELSE 0]]
    /\ allowedAt = rate_limit_tracker
    /\ active_locks = [r \in Resources |-> NoLock]
    /\ agent_priorities = [a \in AgentIds |-> Absent]
    /\ clock = 0
    /\ applied = <<>>
    /\ executionLog = 0
    /\ runs = 0

vars == <<psmVars, execVars, lockVars, policyVars, entryVars, utilVars, flowVars>>

\* No call has been made on the conflict manager directly.
NoCall ==
    [op |-> NONE, agent_id |-> NONE, resource_id |-> NONE, priority |-> 0,
     ok |-> FALSE, holder_before |-> NONE]

LockInit == lockCall = NoCall

\* check_permission has not been called directly.
NoPermCall ==
    [action |-> NONE,
     policy |-> [default_write_block |-> TRUE, action_allowlist |-> {},
                 forbidden_actions |-> {}],
     risk_level |-> NONE, write_policy |-> NONE,
     result |-> Permission(FALSE, FALSE)]

PolicyInit == permCall = NoPermCall

Sessions == {"s1", "s2"}

\* No analysis has been handed over.
NoAnalysis == [success_rate |-> 0, user_satisfaction |-> 0]

\* A session whose script is not running.
Resting ==
    [pc |-> "idle", doc |-> EmptyStore, p |-> 0, cfg |-> NONE, run_no |-> 0,
     analysis |-> NoAnalysis]

FlowInit ==
    /\ sess = [s \in Sessions |-> Resting]
    /\ patternsAdded = 0

\* No partial-failure analysis and no backoff computation has been made.
NoAnalysisYet == [successful |-> <<>>, failed |-> <<>>, retried |-> <<>>]

NoBackoff == [attempt |-> 0, delay |-> 0, called |-> FALSE]

NoBest == [solutions |-> <<>>, best |-> 0, called |-> FALSE]

NoPersistence == [evidence |-> [trend |-> Absent, recurrence_count |-> Absent],
                  score |-> 0, called |-> FALSE]

UtilInit ==
    /\ pfResults = <<>>
    /\ pfAnalysis = NoAnalysisYet
    /\ backoffCall = NoBackoff
    /\ bestCall = NoBest
    /\ persistCall = NoPersistence

\* Nothing has been handed to the audit logger directly.
NoEntry == [log |-> NONE, keys |-> {}]

EntryInit == auditEntry = NoEntry

\* A fresh process: candidate problems, empty module-level tables.
FreshInit ==
    PsmInit /\ ExecInitWith(0) /\ LockInit /\ PolicyInit /\ EntryInit /\ FlowInit /\ UtilInit

\* The problem state machine and the decision handlers.
SpecPSM == FreshInit /\ [][PsmNext]_vars

\* execute_agent called again and again from one thread, with the clock
\* running; the rate-limit table starts empty or two requests short of full.
ExecInit ==
    /\ PsmInit
    /\ \E earlier \in {0, MAX_REQUESTS - 2} : ExecInitWith(earlier)
    /\ LockInit
    /\ PolicyInit
    /\ EntryInit
    /\ FlowInit
    /\ UtilInit

ExecNext ==
    \/ Start("t1", ConfigNames, WorldModelNames)
    \/ Gate("t1")
    \/ IdemTest("t1")
    \/ IdemAdd("t1")
    \/ CheckConflict("t1")
    \/ Acquire("t1")
    \/ Effect("t1")
    \/ Release("t1")
    \/ Finish("t1")
    \/ ClockTick

SpecExec == ExecInit /\ [][ExecNext]_vars

\* Two threads inside execute_agent at once, each running a labelling agent
\* with writes open; their steps interleave at the calls on shared state.
ConcConfigs == {"labeler_low", "labeler_medium", "labeler_high"}

ConcNext ==
    \/ \E t \in Threads : Start(t, ConcConfigs, {"writes_open"})
    \/ \E t \in Threads : Gate(t)
    \/ \E t \in Threads : IdemTest(t)
    \/ \E t \in Threads : IdemAdd(t)
    \/ \E t \in Threads : CheckConflict(t)
    \/ \E t \in Threads : Acquire(t)
    \/ \E t \in Threads : Effect(t)
    \/ \E t \in Threads : Release(t)
    \/ \E t \in Threads : Finish(t)

SpecConc == FreshInit /\ [][ConcNext]_vars

\* The conflict manager on its own: any agent asks for any lock with any
\* priority, and any lock is released, in any order.
LockAgents == {"agent_low", "agent_medium", "agent_high"}

\* The priorities of priority_map, and one below the default.
LockPriorities == {DEFAULT_PRIORITY - 2} \cup {priority_map[k] : k \in DOMAIN priority_map}

\* The write action an agent locks a resource for.
LockAction(agent_id) ==
    AgentConfigs[CHOOSE c \in ConfigNames : AgentConfigs[c].id = agent_id].actions[1]

LockAcquire(agent_id, resource_id, priority) ==
    LET r == acquire_lock(active_locks, agent_priorities, agent_id, resource_id,
                          LockAction(agent_id), priority)
    IN  /\ active_locks' = r.locks
        /\ agent_priorities' = r.prios
        /\ lockCall' = [op |-> "acquire_lock", agent_id |-> agent_id,
                        resource_id |-> resource_id, priority |-> priority,
                        ok |-> r.ok,
                        holder_before |-> active_locks[resource_id].agent_id]
        /\ UNCHANGED <<th, processed_events, rate_limit_tracker, clock, allowedAt,
                       applied, executionLog, runs, psmVars, policyVars, entryVars, utilVars,
                       flowVars>>

LockRelease(resource_id) ==
    LET r == release_lock(active_locks, agent_priorities, resource_id)
    IN  /\ active_locks' = r.locks
        /\ agent_priorities' = r.prios
        /\ lockCall' = [op |-> "release_lock", agent_id |-> NONE,
                        resource_id |-> resource_id, priority |-> 0, ok |-> TRUE,
                        holder_before |-> active_locks[resource_id].agent_id]
        /\ UNCHANGED <<th, processed_events, rate_limit_tracker, clock, allowedAt,
                       applied, executionLog, runs, psmVars, policyVars, entryVars, utilVars,
                       flowVars>>

LockNext ==
    \/ \E a \in LockAgents, r \in Resources, p \in LockPriorities : LockAcquire(a, r, p)
    \/ \E r \in Resources : LockRelease(r)

SpecLock == FreshInit /\ [][LockNext]_vars

\* ------------------------------------------------ claims: state machine
\* The status the approve / reject / snooze decision asks for.
DecisionTarget(decision) ==
    CASE decision = "approve" -> CONFIRMED
      [] decision = "reject"  -> REJECTED
      [] decision = "snooze"  -> SNOOZED

\* C1: whatever state-machine operation runs, a problem's status changes only
\* along an edge of the allowed-transitions graph and stays one of the six
\* statuses; a Rejected or Archived problem never changes status again.
C1_StatusFollowsAllowedEdges ==
    [][\A p \in ProblemIds :
          /\ problems'[p].status \in ProblemStatus
          /\ problems'[p].status # problems[p].status
                => problems'[p].status \in ALLOWED_TRANSITIONS[problems[p].status]
          /\ problems[p].status \in {REJECTED, ARCHIVED}
                => problems'[p].status = problems[p].status]_vars

\* A rejected problem on which a later operation was attempted and refused.
C1_Witness ==
    \E p \in ProblemIds :
        /\ problems[p].status = REJECTED
        /\ Len(problems[p].transition_history) = 3
        /\ lastOp.raised /\ lastOp.p = p

\* C2: a transition outside the allowed set raises and returns the problem
\* dict as it was (status, state-specific timestamps, history); a call that
\* raised changed no problem and wrote no audit entry, and an audit entry is
\* only ever written for a decision whose transition was allowed.
C2_IllegalTransitionLeavesNoTrace ==
    /\ [](\A p \in ProblemIds, target \in ProblemStatus :
            target \notin ALLOWED_TRANSITIONS[problems[p].status]
                => LET r == transition(problems[p], target, NONE, now)
                   IN  r.raised /\ r.problem = problems[p])
    /\ [][/\ (lastOp'.raised /\ lastOp' # lastOp)
                => (problems' = problems /\ proposalLog' = proposalLog)
          /\ \A p \in ProblemIds :
                proposalLog'[p] # proposalLog[p]
                    => /\ Len(proposalLog'[p]) = Len(proposalLog[p]) + 1
                       /\ DecisionTarget(proposalLog'[p][Len(proposalLog'[p])])
                              \in ALLOWED_TRANSITIONS[problems[p].status]]_vars

\* The approve decision was taken on a rejected problem and raised.
C2_Witness ==
    /\ lastOp.raised
    /\ lastOp.op = "approve"
    /\ problems[lastOp.p].status = REJECTED
    /\ proposalLog[lastOp.p] = <<"reject">>

\* C3: every state change appends exactly one history entry, from the old
\* status to the new one, and touches no earlier entry; so the entries chain
\* and the last entry's `to` is the current status.
C3_HistoryChains ==
    /\ [](\A p \in ProblemIds :
            LET h == problems[p].transition_history IN
            /\ \A i \in 1..(Len(h) - 1) : h[i + 1].from = h[i].to
            /\ Len(h) > 0 => h[Len(h)].to = problems[p].status)
    /\ [][\A p \in ProblemIds :
            (\/ problems'[p].status # problems[p].status
             \/ problems'[p].transition_history # problems[p].transition_history)
                => problems'[p].transition_history =
                       Append(problems[p].transition_history,
                              [from |-> problems[p].status,
                               to   |-> problems'[p].status])]_vars

\* A problem that was snoozed and swept back to Candidate: three entries.
C3_Witness ==
    \E p \in ProblemIds :
        /\ problems[p].status = CANDIDATE
        /\ Len(problems[p].transition_history) = 3
        /\ problems[p].transition_history[3] = [from |-> SNOOZED, to |-> CANDIDATE]

\* --------------------------------------------------- claims: execution
\* The requests of a resource answered allowed in the window ending at `e`.
AllowedIn(allowed, b, e) ==
    SumOver([t \in TimePoints |->
                IF t > e - WINDOW_SECONDS /\ t <= e THEN allowed[b][t] ELSE 0],
            TimePoints)

AllowedInWindow(b, e) == AllowedIn(allowedAt, b, e)

\* C4: the effect of an (action, resource_id, context) runs at most once,
\* however often the agent is executed: a second run records `skipped`
\* instead of applying it again.
C4_EffectAppliedAtMostOnce ==
    \A k \in DOMAIN applied : applied[k] <= 1

\* C5: in every 60-second window at most 100 requests of a resource are
\* answered allowed; a request made with 100 in the window is refused, its
\* action recorded `rate_limited` with a retry_after and no effect, and a
\* request made with fewer is let through.
C5_RateLimit ==
    /\ [](/\ \A b \in RateBuckets, e \in TimePoints :
                AllowedInWindow(b, e) <= MAX_REQUESTS
          /\ \A t \in Threads : \A i \in 1..Len(th[t].results) :
                th[t].results[i].status = "rate_limited"
                    => /\ th[t].results[i].retry_after # Absent
                       /\ th[t].results[i].retry_after[1] >= 0
                       /\ th[t].results[i].retry_after[1] <= WINDOW_SECONDS)
    /\ [][\A t \in Threads :
            (th[t].pc = "gate" /\ th'[t] # th[t])
                => LET a == CurrentAction(t)
                       limited ==
                           /\ Len(th'[t].results) = Len(th[t].results) + 1
                           /\ th'[t].results[Len(th'[t].results)].status = "rate_limited"
                   IN  /\ (AllowedInWindow(a.resource, clock) >= MAX_REQUESTS) <=> limited
                       /\ limited => (applied' = applied /\ allowedAt' = allowedAt)
                       /\ ~limited => AllowedIn(allowedAt', a.resource, clock) =
                                          AllowedInWindow(a.resource, clock) + 1]_vars

\* The hundredth request of the window was let through and the next refused.
C5_Witness ==
    \E t \in Threads : \E i \in 1..Len(th[t].results) :
        /\ th[t].results[i].status = "rate_limited"
        /\ i > 1 /\ th[t].results[i - 1].status # "rate_limited"
        /\ AllowedInWindow("default", clock) = MAX_REQUESTS

\* C6: a write action whose effect was applied (recorded `success`) uses a
\* tool of the config whose permissions.write names the action's verb.
C6_WriteNeedsToolPermission ==
    \A t \in Threads : \A i \in 1..Len(th[t].results) :
        LET a == Config(t).actions[i] IN
        (th[t].results[i].status = "success" /\ a.type = "write")
            => /\ a.tool \in DOMAIN Config(t).tools
               /\ DoVerb(a.do) \in Config(t).tools[a.tool]

\* C7: an action for which the policy check answers requires_approval is
\* recorded `pending_approval`, one it does not allow is recorded `blocked`
\* (neither runs its effect), and the loop goes on to the remaining actions.
C7_ApprovalAndDenialAreRecorded ==
    \A t \in Threads :
        /\ \A i \in 1..Len(th[t].results) :
              LET perm == check_permission(Config(t).actions[i].do, Policy(t), Config(t))
                  r    == th[t].results[i]
              IN  r.status # "rate_limited"
                    => /\ (perm.allowed /\ perm.requires_approval)
                              => r.status = "pending_approval"
                       /\ ~perm.allowed => r.status = "blocked"
        /\ th[t].pc = "finish" => Len(th[t].results) = Len(Config(t).actions)

\* C8: a write action on a resource locked by another agent is arbitrated
\* by the risk-level priorities: the requester goes on to take the lock
\* exactly when its priority is strictly higher than the holder's, and is
\* recorded `conflict` otherwise.
C8_ArbitrationByRiskPriority ==
    [][\A t \in Threads :
        (/\ th[t].pc \in {"conflict", "acquire"}
         /\ th'[t] # th[t]
         /\ CurrentAction(t).type = "write"
         /\ IsLocked(active_locks, th[t].resource_id)
         /\ active_locks[th[t].resource_id].agent_id # Config(t).id)
            => LET requester == priority_score(Config(t).risk_level)
                   holder    == priority_score(
                                    RiskOfAgent(active_locks[th[t].resource_id].agent_id))
               IN  IF requester > holder
                   THEN \/ th'[t].pc = "acquire"
                        \/ /\ th'[t].pc = "effect"
                           /\ active_locks'[th[t].resource_id].agent_id = Config(t).id
                   ELSE /\ Len(th'[t].results) = Len(th[t].results) + 1
                        /\ th'[t].results[Len(th'[t].results)].status = "conflict"]_vars

\* A thread that has the lock step behind it and its write effect ahead.
InWrite(t, r) ==
    /\ th[t].pc = "effect"
    /\ th[t].resource_id = r
    /\ CurrentAction(t).type = "write"

\* C9: at most one agent at a time is between acquiring the lock of a
\* resource and finishing its write effect on it.
C9_OneWriterPerResource ==
    \A r \in Resources :
        Cardinality({Config(t).id : t \in {u \in Threads : InWrite(u, r)}}) <= 1

\* C10: when execute_agent has returned, no lock taken by the run is left
\* in active_locks.
C10_NoLockLeftAfterReturn ==
    (\A t \in Threads : th[t].pc = "idle")
        => \A r \in Resources : ~IsLocked(active_locks, r)

\* The logs directory stops, or starts again, accepting writes.
LogOutage ==
    /\ logDown' = ~logDown
    /\ UNCHANGED <<problems, now, proposalLog, lastOp, proposalStatus, store,
                   nonPsmVars>>

\* One session in which log writes may fail: proposals are created (which
\* promotes candidates), decided on the Proposal page, and agents are run.
AuditConfigs == {"labeler_low"}

\* The problem of the session's proposal.
AuditProblems == {1}

AuditNext ==
    \/ \E p \in AuditProblems : CallPromote(p)
    \/ \E p \in AuditProblems : ApproveHandler(p)
    \/ \E p \in AuditProblems : RejectHandler(p)
    \/ \E p \in AuditProblems : SnoozeHandler(p)
    \/ LogOutage
    \/ Start("t1", AuditConfigs, {"writes_open"})
    \/ Gate("t1")
    \/ IdemTest("t1")
    \/ IdemAdd("t1")
    \/ CheckConflict("t1")
    \/ Acquire("t1")
    \/ Effect("t1")
    \/ Release("t1")
    \/ Finish("t1")

SpecAudit == FreshInit /\ [][AuditNext]_vars

\* check_permission on its own: any action string under any policy of the
\* world model, for an agent composed at some risk level, an agent whose
\* config sets write_operations by hand, or no agent config at all.  The
\* function keeps no state between calls, so one call is followed.
\* One action string of each class (read, write, delete, notification,
\* execute), and one that carries keywords of two classes.
PolicyActions ==
    {DO_READ_EMAILS, DO_LABEL_IMPORTANT, DO_DELETE, DO_NOTIFY_REVIEW,
     DO_REVIEW_PR, DO_SEND_ALERT}

\* An allowlist or forbidden list: empty, or naming one of the actions.
PolicyLists == {{}} \cup {{a} : a \in PolicyActions}

RiskLevels == {"low", "medium", "high", "critical"}

CheckPermission(action, policy, risk_level, write_policy) ==
    /\ permCall = NoPermCall
    /\ permCall' = [action |-> action, policy |-> policy,
                    risk_level |-> risk_level, write_policy |-> write_policy,
                    result |-> check_permission(action, policy,
                                                [write_policy |-> write_policy])]
    /\ UNCHANGED <<psmVars, execVars, lockVars, entryVars, utilVars, flowVars>>

\* The agent config is the one compose_agent builds for the risk level.
CheckComposed ==
    \E action \in PolicyActions, dwb \in BOOLEAN,
       allow \in PolicyLists, forbid \in PolicyLists,
       risk_level \in RiskLevels :
        CheckPermission(action,
                        [default_write_block |-> dwb, action_allowlist |-> allow,
                         forbidden_actions |-> forbid],
                        risk_level, _generate_safety_policy(risk_level).write_policy)

\* The agent config is absent, or sets write_operations to block.
CheckOther ==
    \E action \in PolicyActions, dwb \in BOOLEAN,
       allow \in PolicyLists, forbid \in PolicyLists,
       write_policy \in {NONE, "block"} :
        CheckPermission(action,
                        [default_write_block |-> dwb, action_allowlist |-> allow,
                         forbidden_actions |-> forbid],
                        NONE, write_policy)

PolicyNext == CheckComposed \/ CheckOther

SpecPolicy == FreshInit /\ [][PolicyNext]_vars

\* ------------------------------------------------ learning.py, run_demo
\* analyze_results without user feedback reports this satisfaction (0.5).
\* Rates are in percent.
analyze_results(success_rate) ==
    [success_rate |-> success_rate, user_satisfaction |-> 50]

\* update_world_model on the document it loaded: a pattern is appended when
\* the success rate is above 0.8 and the satisfaction above 0.7.  (It also
\* stamps updated_at, which nothing reads.)
update_world_model(doc, analysis) ==
    IF analysis.success_rate > 80 /\ analysis.user_satisfaction > 70
    THEN [doc EXCEPT !.patterns = @ + 1]
    ELSE doc

\* run_demo, line 174: the world model is loaded into a local dict.
DemoStart(s) ==
    /\ sess[s].pc \in {"idle", "done"}
    /\ sess' = [sess EXCEPT ![s] = [Resting EXCEPT !.pc = "propose", !.doc = store]]
    /\ UNCHANGED <<psmVars, execVars, lockVars, policyVars, entryVars, utilVars, patternsAdded>>

\* Lines 419-452: create_proposal promotes the freshly interpreted problem,
\* the demo approves it and confirms the problem, and appends it to the
\* local dict's confirmed_problems.
DemoPropose(s) ==
    /\ sess[s].pc = "propose"
    /\ \E p \in ProblemIds :
        LET promoted  == promote_candidate_to_proposed(problems[p], now)
            confirmed == confirm_problem(promoted.problem, now)
        IN  /\ problems[p].status = CANDIDATE
            /\ problems[p].transition_history = <<>>
            /\ problems' = [problems EXCEPT ![p] = confirmed.problem]
            /\ proposalStatus' = [proposalStatus EXCEPT ![p] = "approved"]
            /\ sess' = [sess EXCEPT ![s].pc = "compose", ![s].p = p,
                                    ![s].doc.confirmed_problems = @ \cup {p}]
    /\ UNCHANGED <<now, proposalLog, lastOp, store, logDown, execVars, lockVars,
                   policyVars, entryVars, utilVars, patternsAdded>>

\* The agents the demo composes.
DemoConfigs == {"labeler_low", "reviewer"}

\* Lines 455-507: compose_agent, and the agent appended to the local dict's
\* active_agents.
DemoCompose(s) ==
    /\ sess[s].pc = "compose"
    /\ \E c \in DemoConfigs :
          sess' = [sess EXCEPT ![s].pc = "execute", ![s].cfg = c, ![s].run_no = runs,
                                  ![s].doc.active_agents = @ \cup {AgentConfigs[c].id}]
    /\ UNCHANGED <<psmVars, execVars, lockVars, policyVars, entryVars, utilVars, patternsAdded>>

\* Lines 510-543: execute_agent is called with the composed config.
DemoExecute(s) ==
    /\ sess[s].pc = "execute"
    /\ runs = sess[s].run_no
    /\ Start("t1", {sess[s].cfg}, {"writes_open"})

\* Lines 546-572, once execute_agent has returned: update_world_model loads
\* the stored document, updates and writes it, and the demo writes the
\* returned document once more.
DemoLearn(s) ==
    /\ sess[s].pc = "execute"
    /\ runs > sess[s].run_no
    /\ th["t1"].pc = "idle"
    /\ \E success_rate \in {0, 100} :
        LET updated == update_world_model(store, analyze_results(success_rate)) IN
        /\ store' = updated
        /\ patternsAdded' = patternsAdded + (updated.patterns - store.patterns)
        /\ sess' = [sess EXCEPT ![s].pc = "done", ![s].doc = updated]
    /\ UNCHANGED <<problems, now, proposalLog, lastOp, proposalStatus, logDown,
                   execVars, lockVars, policyVars, entryVars, utilVars>>

DemoNext ==
    \/ DemoStart("s1")
    \/ DemoPropose("s1")
    \/ DemoCompose("s1")
    \/ DemoExecute("s1")
    \/ Gate("t1")
    \/ IdemTest("t1")
    \/ IdemAdd("t1")
    \/ CheckConflict("t1")
    \/ Acquire("t1")
    \/ Effect("t1")
    \/ Release("t1")
    \/ Finish("t1")
    \/ DemoLearn("s1")

SpecDemo == FreshInit /\ [][DemoNext]_vars

\* ------------------------------------------- concurrent store updates
\* The approve handler, lines 1650-1657: the problem is confirmed and the
\* stored document is loaded.  A confirm_problem that raises ends the
\* handler in its except branch.
ApproveBegin(s, p) ==
    LET r == confirm_problem(problems[p], now) IN
    /\ sess[s].pc = "idle"
    /\ proposalStatus[p] # "approved"
    /\ r.raised \/ HistoryRoom(p)
    /\ problems' = [problems EXCEPT ![p] = r.problem]
    /\ lastOp' = IF r.raised THEN [op |-> "approve", p |-> p, raised |-> TRUE] ELSE NoRaise
    /\ sess' = IF r.raised THEN sess
               ELSE [sess EXCEPT ![s] = [Resting EXCEPT !.pc = "approve_loaded",
                                                        !.doc = store, !.p = p]]
    /\ UNCHANGED <<now, proposalLog, proposalStatus, store, logDown, execVars,
                   lockVars, policyVars, entryVars, utilVars, patternsAdded>>

\* The approve handler, lines 1658-1675: the problem is appended to the
\* loaded document, the document is written, the decision is logged and the
\* session's proposal is marked approved.
ApproveWrite(s) ==
    /\ sess[s].pc = "approve_loaded"
    /\ store' = [sess[s].doc EXCEPT !.confirmed_problems = @ \cup {sess[s].p}]
    /\ proposalLog' = IF logDown THEN proposalLog
                      ELSE [proposalLog EXCEPT ![sess[s].p] = Append(@, "approve")]
    /\ proposalStatus' = IF logDown THEN proposalStatus
                         ELSE [proposalStatus EXCEPT ![sess[s].p] = "approved"]
    /\ sess' = [sess EXCEPT ![s] = Resting]
    /\ UNCHANGED <<problems, now, lastOp, logDown, execVars, lockVars, policyVars,
                   entryVars, utilVars, patternsAdded>>

\* The analyses a caller can hand to update_world_model: analyze_results
\* with and without user feedback.
Analyses ==
    {[success_rate |-> sr, user_satisfaction |-> us] : sr \in {0, 100}, us \in {50, 100}}

\* update_world_model, lines 80-87: the stored document is loaded.
UpdateLoad(s, analysis) ==
    /\ sess[s].pc = "idle"
    /\ patternsAdded + Cardinality({u \in Sessions : sess[u].pc = "update_loaded"})
          < MaxPatterns
    /\ sess' = [sess EXCEPT ![s] = [Resting EXCEPT !.pc = "update_loaded",
                                                   !.doc = store,
                                                   !.analysis = analysis]]
    /\ UNCHANGED <<psmVars, execVars, lockVars, policyVars, entryVars, utilVars, patternsAdded>>

\* update_world_model, lines 89-137: the loaded document is updated and
\* written.
UpdateWrite(s) ==
    LET updated == update_world_model(sess[s].doc, sess[s].analysis) IN
    /\ sess[s].pc = "update_loaded"
    /\ store' = updated
    /\ patternsAdded' = patternsAdded + (updated.patterns - sess[s].doc.patterns)
    /\ sess' = [sess EXCEPT ![s] = Resting]
    /\ UNCHANGED <<problems, now, proposalLog, lastOp, proposalStatus, logDown,
                   execVars, lockVars, policyVars, entryVars, utilVars>>

StoreNext ==
    \/ \E p \in ProblemIds : CallPromote(p)
    \/ \E s \in Sessions, p \in ProblemIds : ApproveBegin(s, p)
    \/ \E s \in Sessions : ApproveWrite(s)
    \/ \E s \in Sessions, a \in Analyses : UpdateLoad(s, a)
    \/ \E s \in Sessions : UpdateWrite(s)

SpecStore == FreshInit /\ [][StoreNext]_vars

\* ------------------------------------------- security.py, observability.py
\* The sensitivity keywords a key name contains (`keyword in str(data)`).
KeywordsIn(key) ==
    CASE key = "body"          -> {"body"}
      [] key = "token"         -> {"token"}
      [] key = "proposal_text" -> {"text"}
      [] key = "subject"       -> {"subject"}
      [] key = "sender"        -> {"sender"}
      [] key = "title"         -> {"title"}
      [] OTHER                 -> {}

high_sensitivity_keywords ==
    {"body", "content", "text", "message", "personal_info", "password", "token",
     "secret", "private"}

medium_sensitivity_keywords == {"subject", "title", "sender", "domain", "metadata"}

\* classify_sensitivity of a dict with the given key names.
classify_sensitivity(keys) ==
    IF \E k \in keys : KeywordsIn(k) \cap high_sensitivity_keywords # {} THEN "high"
    ELSE IF \E k \in keys : KeywordsIn(k) \cap medium_sensitivity_keywords # {}
    THEN "medium"
    ELSE "low"

\* The keys of the records execute_agent returns as processed_emails /
\* processed_prs / ...: those of the input records, and applied_label where
\* the label effect ran.
ProcessedKeys(record_keys, labelled) ==
    IF labelled THEN record_keys \cup {"applied_label"} ELSE record_keys

\* The keys of execution_result["summary"].
SummaryKeys ==
    {"total_steps", "completed_steps", "blocked_steps", "pending_approval",
     "rate_limited", "skipped_idempotent", "success_rate", "total_items",
     "processed_count", "failure_analysis"}

\* log_agent_execution: the keys of the entry, nested ones included.  The
\* processed records go into `actions` as they are.
log_agent_execution(has_results, processed_keys) ==
    {"type", "timestamp", "agent_id", "trigger_event_id", "tool_calls", "actions",
     "outcome_metrics"}
        \cup (IF has_results THEN {"name", "tool", "success", "output"} ELSE {})
        \cup processed_keys
        \cup SummaryKeys

\* log_proposal_decision: the problem's evidence dict goes in as it is.
log_proposal_decision(evidence_keys) ==
    {"type", "timestamp", "problem_candidate_id", "evidence", "proposal_text",
     "alternatives_shown", "user_decision"} \cup evidence_keys

\* The logging functions on their own; they keep no state between calls, so
\* one call is followed.  Input records carry any of these fields.
RecordKeys == {"id", "subject", "sender", "body", "hidden_priority", "token", "title"}

EvidenceKeys == {"current_value", "expected_value", "trend", "recurrence_count"}

LogExecutionEntry ==
    /\ auditEntry = NoEntry
    /\ \E record_keys \in SUBSET RecordKeys, labelled \in BOOLEAN, has_results \in BOOLEAN :
          auditEntry' = [log |-> "executions",
                         keys |-> log_agent_execution(
                                      has_results, ProcessedKeys(record_keys, labelled))]
    /\ UNCHANGED <<psmVars, execVars, lockVars, policyVars, flowVars, utilVars>>

LogProposalEntry ==
    /\ auditEntry = NoEntry
    /\ \E evidence_keys \in SUBSET EvidenceKeys :
          auditEntry' = [log |-> "proposals",
                         keys |-> log_proposal_decision(evidence_keys)]
    /\ UNCHANGED <<psmVars, execVars, lockVars, policyVars, flowVars, utilVars>>

EntryNext == LogExecutionEntry \/ LogProposalEntry

SpecEntry == FreshInit /\ [][EntryNext]_vars

\* ------------------------------------------- execution_utils.py: retries
MaxAttempt == 7
MaxResults == 2

RECURSIVE Pow(_, _)
Pow(b, n) == IF n = 0 THEN 1 ELSE b * Pow(b, n - 1)

\* exponential_backoff: base_delay * multiplier ** attempt, capped.
exponential_backoff(attempt, base_delay, max_delay, multiplier) ==
    Min({base_delay * Pow(multiplier, attempt), max_delay})

\* The condition under which handle_partial_failure counts a retry for a
\* result (a missing "retryable" reads as True).
CountsRetry(result, max_retries) ==
    /\ result.status \in {"failed", "error"}
    /\ result.retryable
    /\ result.retry_count < max_retries

Indexes(n) == [i \in 1..n |-> i]

\* handle_partial_failure.  The three lists hold the result dicts
\* themselves, given here by their positions in results; retry_count is
\* incremented in the dict, so the caller's list carries it afterwards.
handle_partial_failure_four(results, max_retries) ==
    LET Failing(i) == results[i].status \in {"failed", "error"}
        Counts(i)  == Failing(i) /\ results[i].retryable
                        /\ results[i].retry_count <= max_retries
    IN  [results    |-> [i \in DOMAIN results |->
                           IF Counts(i)
                           THEN [results[i] EXCEPT !.retry_count = @ + 1]
                           ELSE results[i]],
         successful |-> SelectSeq(Indexes(Len(results)), LAMBDA i : ~Failing(i)),
         failed     |-> SelectSeq(Indexes(Len(results)),
                                  LAMBDA i : Failing(i) /\ ~Counts(i)),
         retried    |-> SelectSeq(Indexes(Len(results)), LAMBDA i : Counts(i))]

handle_partial_failure(results, max_retries) ==
    LET Failing(i) == results[i].status \in {"failed", "error"}
        Counts(i)  == CountsRetry(results[i], max_retries)
    IN  [results    |-> [i \in DOMAIN results |->
                           IF Counts(i)
                           THEN [results[i] EXCEPT !.retry_count = @ + 1]
                           ELSE results[i]],
         successful |-> SelectSeq(Indexes(Len(results)), LAMBDA i : ~Failing(i)),
         failed     |-> SelectSeq(Indexes(Len(results)),
                                  LAMBDA i : Failing(i) /\ ~Counts(i)),
         retried    |-> SelectSeq(Indexes(Len(results)), LAMBDA i : Counts(i))]

\* The per-step results an execution hands over: no retry has been counted.
FreshResult ==
    [status : {"success", "failed", "error", "skipped"}, retryable : BOOLEAN,
     retry_count : {0}]

FreshResults == UNION {[1..n -> FreshResult] : n \in 1..MaxResults}

\* execute_agent, lines 568-569: the results of a run are analysed.
AnalyseResults(results) ==
    LET out == handle_partial_failure(results, 3) IN
    /\ pfResults = <<>>
    /\ pfResults' = out.results
    /\ pfAnalysis' = [successful |-> out.successful, failed |-> out.failed,
                      retried |-> out.retried]
    /\ UNCHANGED <<psmVars, execVars, lockVars, policyVars, entryVars, flowVars,
                   backoffCall, bestCall, persistCall>>

\* A caller hands the same list to handle_partial_failure once more, the
\* steps of its "retried" list having failed again.
AnalyseAgain ==
    LET out == handle_partial_failure(pfResults, 3) IN
    /\ pfAnalysis.retried # <<>>
    /\ pfResults' = out.results
    /\ pfAnalysis' = [successful |-> out.successful, failed |-> out.failed,
                      retried |-> out.retried]
    /\ UNCHANGED <<psmVars, execVars, lockVars, policyVars, entryVars, flowVars,
                   backoffCall, bestCall, persistCall>>

\* exponential_backoff with its default base, cap and multiplier.
Backoff(attempt) ==
    /\ ~backoffCall.called
    /\ backoffCall' = [attempt |-> attempt,
                       delay |-> exponential_backoff(attempt, 1, 60, 2),
                       called |-> TRUE]
    /\ UNCHANGED <<psmVars, execVars, lockVars, policyVars, entryVars, flowVars,
                   pfResults, pfAnalysis, bestCall, persistCall>>

RetryNext ==
    \/ \E results \in FreshResults : AnalyseResults(results)
    \/ AnalyseAgain
    \/ \E attempt \in 0..MaxAttempt : Backoff(attempt)

SpecRetry == FreshInit /\ [][RetryNext]_vars

\* ------------------------------------------------------------ proposal.py
MaxSolutions == 3
MaxPros      == 2

\* complexity_score.get(complexity, 1)
complexity_score(complexity) ==
    CASE complexity = "low"    -> 3
      [] complexity = "medium" -> 2
      [] complexity = "high"   -> 1
      [] OTHER                 -> 1

SolutionScore(sol) == sol.pros - sol.cons + complexity_score(sol.complexity)

\* The scan of select_best_solution from position i on, the best so far
\* being at position best.
RECURSIVE ScanLatest(_, _, _)
ScanLatest(solutions, i, best) ==
    IF i > Len(solutions) THEN best
    ELSE IF SolutionScore(solutions[i]) >= SolutionScore(solutions[best])
    THEN ScanLatest(solutions, i + 1, i)
    ELSE ScanLatest(solutions, i + 1, best)

RECURSIVE Scan(_, _, _)
Scan(solutions, i, best) ==
    IF i > Len(solutions) THEN best
    ELSE IF SolutionScore(solutions[i]) > SolutionScore(solutions[best])
    THEN Scan(solutions, i + 1, i)
    ELSE Scan(solutions, i + 1, best)

\* select_best_solution: the position of the returned solution in the
\* list, 0 for None.
select_best_solution(solutions) ==
    IF solutions = <<>> THEN 0 ELSE Scan(solutions, 2, 1)

\* Solutions as explore_solutions can hand them over.
SolutionShapes ==
    {Solution("sol", "solution", pros, cons, complexity, {}) :
        pros \in 1..MaxPros, cons \in {1, 2},
        complexity \in {"low", "medium", "high"}}

SolutionLists ==
    {<<>>, EmailVisibilitySolutions, PrReviewDelaySolutions}
        \cup UNION {[1..n -> SolutionShapes] : n \in 1..MaxSolutions}

SelectBest(solutions) ==
    /\ ~bestCall.called
    /\ bestCall' = [solutions |-> solutions, best |-> select_best_solution(solutions),
                    called |-> TRUE]
    /\ UNCHANGED <<psmVars, execVars, lockVars, policyVars, entryVars, flowVars,
                   pfResults, pfAnalysis, backoffCall, persistCall>>

ProposalNext == \E solutions \in SolutionLists : SelectBest(solutions)

SpecProposal == FreshInit /\ [][ProposalNext]_vars

\* ------------------------------------------------------ problem_scoring.py
MaxRecurrence == 5

\* _calculate_persistence, in tenths.  A key that evidence does not carry
\* is Absent.
_calculate_persistence(evidence) ==
    IF evidence.trend # Absent
       /\ evidence.trend[1] \in {"increasing", "decreasing", "stable"}
    THEN 8
    ELSE IF evidence.recurrence_count # Absent
    THEN IF evidence.recurrence_count[1] >= 3 THEN 9
         ELSE IF evidence.recurrence_count[1] >= 2 THEN 6
         ELSE 3
    ELSE 2

Trends == {Absent} \cup {Some(x) : x \in {"increasing", "decreasing", "stable", "unknown"}}

RecurrenceCounts == {Absent} \cup {Some(n) : n \in 0..MaxRecurrence}

CalculatePersistence(trend, recurrence_count) ==
    LET evidence == [trend |-> trend, recurrence_count |-> recurrence_count] IN
    /\ ~persistCall.called
    /\ persistCall' = [evidence |-> evidence,
                       score |-> _calculate_persistence(evidence), called |-> TRUE]
    /\ UNCHANGED <<psmVars, execVars, lockVars, policyVars, entryVars, flowVars,
                   pfResults, pfAnalysis, backoffCall, bestCall>>

\* The scorer is called on a gap while solutions are being selected for
\* another.
ScoringNext ==
    \/ \E trend \in Trends, recurrence_count \in RecurrenceCounts :
          CalculatePersistence(trend, recurrence_count)
    \/ \E solutions \in {EmailVisibilitySolutions, PrReviewDelaySolutions} :
          SelectBest(solutions)

SpecScoring == FreshInit /\ [][ScoringNext]_vars

\* ------------------------------------------------ claims: conflict manager
\* C11: acquire_lock returns true and makes the caller the holder exactly
\* when the resource is unlocked or the given priority is strictly greater
\* than the priority recorded for the holder (which is then preempted);
\* otherwise it returns false and leaves active_locks and agent_priorities
\* as they were.  A resource has one holder or none.
C11_AcquireLock ==
    /\ [](\A r \in Resources :
            \/ active_locks[r] = NoLock
            \/ active_locks[r].agent_id \in AgentIds)
    /\ [][(lockCall' # lockCall /\ lockCall'.op = "acquire_lock")
            => LET c      == lockCall'
                   held   == IsLocked(active_locks, c.resource_id)
                   holder == active_locks[c.resource_id].agent_id
                   wins   == \/ ~held
                             \/ c.priority > PriorityGet(agent_priorities, holder)
               IN  /\ c.ok <=> wins
                   /\ c.ok => /\ active_locks'[c.resource_id].agent_id = c.agent_id
                              /\ agent_priorities'[c.agent_id] = Some(c.priority)
                              /\ \A o \in Resources \ {c.resource_id} :
                                    active_locks'[o] = active_locks[o]
                   /\ ~c.ok => /\ active_locks' = active_locks
                               /\ agent_priorities' = agent_priorities]_vars

\* A holder was preempted by an agent asking with a higher priority, and the
\* priority entry of the preempted agent is gone.
C11_Witness ==
    /\ lockCall.op = "acquire_lock"
    /\ lockCall.ok
    /\ lockCall.holder_before \notin {NONE, lockCall.agent_id}
    /\ active_locks[lockCall.resource_id].agent_id = lockCall.agent_id
    /\ agent_priorities[lockCall.holder_before] = Absent

\* ------------------------------------------------------- claims: policy
\* C12: check_permission never answers allowed for an action that is on the
\* forbidden list, whatever the allowlist, default_write_block, the class
\* of the action and the approval policy of the agent.
C12_ForbiddenNeverAllowed ==
    (permCall # NoPermCall /\ permCall.action \in permCall.policy.forbidden_actions)
        => ~permCall.result.allowed

\* C13: with default_write_block on, an action classified write or delete is
\* allowed exactly when it appears in the action allowlist.
C13_WriteBlockUnlessAllowlisted ==
    (/\ permCall # NoPermCall
     /\ permCall.policy.default_write_block
     /\ _classify_action(permCall.action) \in {"write", "delete"})
        => (permCall.result.allowed
                <=> permCall.action \in permCall.policy.action_allowlist)

\* C14: for a write action on neither list, with default_write_block off,
\* the approval policy composed for the agent's risk level gives: low, the
\* write is allowed without approval; medium, it is allowed and requires
\* approval; high, it is not allowed.
C14_ApprovalPolicyByRisk ==
    (/\ permCall.risk_level \in {"low", "medium", "high"}
     /\ ~permCall.policy.default_write_block
     /\ permCall.action \notin permCall.policy.action_allowlist
     /\ permCall.action \notin permCall.policy.forbidden_actions
     /\ _classify_action(permCall.action) = "write")
        => CASE permCall.risk_level = "low"
                    -> permCall.result = Permission(TRUE, FALSE)
             [] permCall.risk_level = "medium"
                    -> permCall.result = Permission(TRUE, TRUE)
             [] permCall.risk_level = "high"
                    -> ~permCall.result.allowed

\* ---------------------------------------------------- claims: audit log
\* C15: every invocation of execute_agent appends exactly one entry to the
\* executions log, whether it completed or failed: once every invocation
\* has returned, the log holds as many entries as there were invocations.
C15_OneExecutionEntryPerInvocation ==
    (\A t \in Threads : th[t].pc = "idle") => executionLog = runs

\* C16: every change of a problem's status emits exactly one audit entry,
\* whichever operation made it (promotion, decision, archiving, the sweep
\* of snoozed problems).
C16_OneAuditEntryPerStatusChange ==
    [][\A p \in ProblemIds :
          problems'[p].status # problems[p].status
              => Len(proposalLog'[p]) = Len(proposalLog[p]) + 1]_vars

\* The decision whose handler moves a problem to the status.
DecisionOf(status) ==
    CASE status = CONFIRMED -> "approve"
      [] status = REJECTED  -> "reject"
      [] status = SNOOZED   -> "snooze"

\* C17: a failing log write does not reach the caller.  A decision handler
\* that changed the problem's status also sets the proposal's status (and,
\* for approve, has the problem in the stored world model), as it does when
\* the log write succeeds; execute_agent returns, with nothing but the log
\* depending on the write.
C17_LogFailureDoesNotPropagate ==
    /\ [][\A p \in ProblemIds :
            (/\ problems'[p].status # problems[p].status
             /\ problems'[p].status \in {CONFIRMED, REJECTED, SNOOZED})
                => /\ proposalStatus'[p] = DecidedStatus(DecisionOf(problems'[p].status))
                   /\ problems'[p].status = CONFIRMED
                          => p \in store'.confirmed_problems]_vars
    /\ [][\A t \in Threads :
            (th[t].pc = "finish" /\ th'[t] # th[t])
                => /\ th'[t] = Idle
                   /\ UNCHANGED <<processed_events, rate_limit_tracker, active_locks,
                                  agent_priorities, applied, runs>>]_vars

\* C18: no entry written by log_agent_execution or log_proposal_decision
\* has a field that the sensitivity rules classify high, whatever fields
\* the processed input records carry.
C18_NoHighSensitivityField ==
    \A k \in auditEntry.keys : classify_sensitivity({k}) # "high"

\* ------------------------------------------------ claims: world model
\* C19: after a complete pipeline run in which the proposal was approved,
\* the stored world model holds the confirmed problem in confirmed_problems
\* and the composed agent in active_agents, the Learning stage's write
\* included.
C19_PipelinePersistsWorldModel ==
    \A s \in Sessions :
        sess[s].pc = "done"
            => /\ sess[s].p \in store.confirmed_problems
               /\ AgentConfigs[sess[s].cfg].id \in store.active_agents

\* C20: when the concurrent updates of the stored document have all
\* returned, the document holds the effects of every one of them: each
\* approved problem is in confirmed_problems and every appended pattern is
\* in patterns.
C20_NoLostUpdate ==
    (\A s \in Sessions : sess[s].pc = "idle")
        => /\ \A p \in ProblemIds :
                 proposalStatus[p] = "approved" => p \in store.confirmed_problems
           /\ store.patterns = patternsAdded

C22_SnoozeReversible ==
    /\ \A p \in ProblemIds, days \in SnoozeDays :
          LET r == snooze_problem(problems[p], days, now) IN
          ~r.raised =>
              /\ r.problem.status = SNOOZED
              /\ r.problem.snooze_until = Some(now + days)
    /\ \A listed \in SUBSET ProblemIds :
          LET r == check_snoozed_problems(listed, now)
              due == {q \in listed : /\ problems[q].status = SNOOZED
                                      /\ problems[q].snooze_until # Absent
                                      /\ problems[q].snooze_until[1] <= now}
          IN  /\ r.ready = due
              /\ \A q \in due :
                    /\ r.updated[q].status = CANDIDATE
                    /\ r.updated[q].transition_history =
                          Append(problems[q].transition_history,
                                 [from |-> SNOOZED, to |-> CANDIDATE])
              /\ \A q \in ProblemIds \ due : r.updated[q] = problems[q]
    /\ \A p \in ProblemIds :
          LET r == snooze_problem(problems[p], 0, now) IN
          ~r.raised => SweepOne(r.problem, now).status = CANDIDATE

\* A problem was snoozed and a later check has brought it back: it is a
\* Candidate whose history ends with Proposed -> Snoozed, Snoozed ->
\* Candidate, while another problem is still snoozed and not yet due.
C22_Witness ==
    \E p, q \in ProblemIds :
        /\ problems[p].status = CANDIDATE
        /\ Len(problems[p].transition_history) >= 3
        /\ problems[p].transition_history[Len(problems[p].transition_history)]
              = [from |-> SNOOZED, to |-> CANDIDATE]
        /\ problems[p].transition_history[Len(problems[p].transition_history) - 1]
              = [from |-> PROPOSED, to |-> SNOOZED]
        /\ problems[q].status = SNOOZED
        /\ problems[q].snooze_until[1] > now

\* ------------------------------------------------------ claims: scenarios
\* C23: the agent composed for the PR review delay problem is triggered by
\* an event, is of risk level low and its slack.send_dm actions need no
\* approval; and when a run of it on the PR input has gone through its
\* actions, two results are `success` and none is `rate_limited`.
C23_PrReviewAlertScenario ==
    LET agent == AgentConfigs["pr_review_alert"]
        With(results, status) == {i \in DOMAIN results : results[i].status = status}
    IN  /\ agent.trigger.type = "event"
        /\ agent.risk_level = "low"
        /\ \A i \in DOMAIN agent.actions :
              /\ "send" \in DoSubstrings(agent.actions[i].do)
              /\ ~agent.actions[i].requires_approval
        /\ \A t \in Threads :
              th[t].pc = "finish" /\ th[t].cfg = "pr_review_alert" /\ th[t].resource_id # NONE
                  => /\ Cardinality(With(th[t].results, "success")) = 2
                     /\ With(th[t].results, "rate_limited") = {}

C25_PersistenceSignal ==
    persistCall.called =>
        LET ev == persistCall.evidence
            count == IF ev.recurrence_count = Absent THEN 0 ELSE ev.recurrence_count[1]
        IN  persistCall.score =
                IF count >= 3 THEN 9
                ELSE IF count >= 2 THEN 6
                ELSE IF ev.trend # Absent
                        /\ ev.trend[1] \in {"increasing", "decreasing", "stable"}
                THEN 8
                ELSE 2

\* ------------------------------------------- claims: processed events, locks
\* C26: once every run has returned, each event id in the processed-event
\* set is one whose effect was applied.
C26_ProcessedMeansApplied ==
    (\A t \in Threads : th[t].pc = "idle")
        => \A e \in processed_events : e \in DOMAIN applied

\* C27: while a lock stays with its holder, the priority that
\* agent_priorities holds for the holder stays the one the lock was acquired
\* with: a call that does not acquire that resource anew leaves it as it
\* is, whatever it does to the holder's other locks.
C27_HeldLockKeepsItsPriority ==
    [][\A r \in Resources :
          /\ IsLocked(active_locks, r)
          /\ active_locks'[r] = active_locks[r]
          /\ ~(/\ lockCall'.op = "acquire_lock"
               /\ lockCall'.ok
               /\ lockCall'.resource_id = r)
          => agent_priorities'[active_locks[r].agent_id]
                = agent_priorities[active_locks[r].agent_id]]_vars

\* C28: a lock leaves active_locks, or passes to another agent, only by a
\* release of the run of its holder or by the acquisition of an agent whose
\* priority is strictly higher than the holder's.
C28_LockRemovedByHolderOrPreemption ==
    [][\A r \in Resources :
          IsLocked(active_locks, r) /\ active_locks'[r] # active_locks[r]
          => \/ /\ IsLocked(active_locks', r)
                /\ PriorityGet(agent_priorities', active_locks'[r].agent_id)
                     > PriorityGet(agent_priorities, active_locks[r].agent_id)
             \/ \E t \in Threads :
                   /\ th[t].pc = "release"
                   /\ th'[t] # th[t]
                   /\ th[t].resource_id = r
                   /\ Config(t).id = active_locks[r].agent_id]_vars

\* C29: of the calls of check_idempotency that parallel runs make with one
\* event id, only one is answered "not yet processed": no two runs are past
\* the test with the same event id at once, and no effect is applied twice
\* for one (action, resource_id, context) that has an event id.
C29_IdempotencyIsTestAndSet ==
    /\ \A t, u \in Threads :
          /\ t # u
          /\ th[t].pc = "idem_add"
          /\ th[u].pc = "idem_add"
          => generate_event_id(CurrentAction(t).do, th[t].resource_id, Config(t).domain)
               # generate_event_id(CurrentAction(u).do, th[u].resource_id, Config(u).domain)
    /\ \A e \in DOMAIN applied : e[2] # NONE => applied[e] <= 1

\* C30: when a run has gone through its actions, it has recorded one result
\* per action, in declaration order, and the summary's total_steps is the
\* number of those results.
C30_OneResultPerActionAndSummaryAgrees ==
    \A t \in Threads :
        th[t].pc = "finish" =>
            /\ Len(th[t].results) = Len(Config(t).actions)
            /\ \A i \in DOMAIN th[t].results :
                  th[t].results[i].action = Config(t).actions[i].do
            /\ Summary(th[t]).total_steps = Len(th[t].results)

====
